---------------------------- MODULE Spec2Model ----------------------------
(* A model of papers_fetcher.py: the PubMed search / detail-fetch / project /  *)
(* save pipeline of fetch_papers, the record projector process_papers and the  *)
(* affiliation classifier is_company_affiliation.                              *)
(*                                                                             *)
(* Python str values are modelled as sequences of one-character strings, so    *)
(* that lower(), the substring test, split(','), strip() and "; ".join() are   *)
(* computed character by character, as the interpreter computes them.          *)
EXTENDS Integers, Sequences, FiniteSets, TLC

VARIABLES
    pc,           \* position in fetch_papers: start, searched, fetched, done, failed
    filename,     \* the filename argument of fetch_papers (None or a path)
    ids,          \* the identifier list search_papers returned
    papers,       \* what Entrez.read(efetch) returned
    results,      \* the rows process_papers returned
    error,        \* the exception that left fetch_papers ("none" while there is none)
    calls,        \* the external calls and the sink call issued so far, in order
    file,         \* the content of the file at the path `filename`
    stdout,       \* the lines printed to standard output
    affiliation,  \* the argument of is_company_affiliation (classifier runs)
    verdict       \* what is_company_affiliation returned (classifier runs)

vars == <<pc, filename, ids, papers, results, error, calls, file, stdout,
          affiliation, verdict>>

-----------------------------------------------------------------------------
(* Bounds of the model.                                                        *)

\* the longest identifier list the search returns
MaxIds == 3
\* the longest AuthorList of a generated record
MaxAuthors == 2
\* the longest ELocationID list of a generated record
MaxElocs == 2
\* the number of fragments an affiliation string of a classifier run is made of
MaxFrags == 2

-----------------------------------------------------------------------------
(* Python str operations.                                                      *)

UpperCase == <<"A","B","C","D","E","F","G","H","I","J","K","L","M",
               "N","O","P","Q","R","S","T","U","V","W","X","Y","Z">>
LowerCase == <<"a","b","c","d","e","f","g","h","i","j","k","l","m",
               "n","o","p","q","r","s","t","u","v","w","x","y","z">>

\* str.lower() on one character
LowerChar(c) ==
    IF \E i \in DOMAIN UpperCase : UpperCase[i] = c
    THEN LowerCase[CHOOSE i \in DOMAIN UpperCase : UpperCase[i] = c]
    ELSE c

\* str.lower()
Lower(s) == [i \in 1..Len(s) |-> LowerChar(s[i])]

\* the Python test `t in s` on strings
Contains(s, t) ==
    \E i \in 1..(Len(s) - Len(t) + 1) : SubSeq(s, i, i + Len(t) - 1) = t

\* s.split(',')[0]: the text before the first comma, all of s when it has none
BeforeFirstComma(s) ==
    IF \E i \in 1..Len(s) : s[i] = ","
    THEN SubSeq(s, 1, (CHOOSE i \in 1..Len(s) :
                          /\ s[i] = ","
                          /\ \A j \in 1..(i - 1) : s[j] # ",") - 1)
    ELSE s

\* str.strip(): leading and trailing whitespace removed
RECURSIVE LStrip(_)
LStrip(s) == IF s # <<>> /\ Head(s) = " " THEN LStrip(Tail(s)) ELSE s

RECURSIVE RStrip(_)
RStrip(s) ==
    IF s # <<>> /\ s[Len(s)] = " " THEN RStrip(SubSeq(s, 1, Len(s) - 1)) ELSE s

Strip(s) == LStrip(RStrip(s))

\* sep.join(parts)
RECURSIVE Join(_, _)
Join(parts, sep) ==
    IF parts = <<>> THEN <<>>
    ELSE IF Len(parts) = 1 THEN parts[1]
    ELSE parts[1] \o sep \o Join(Tail(parts), sep)

-----------------------------------------------------------------------------
(* is_company_affiliation                                                      *)

academic_terms ==
    { <<"u","n","i","v","e","r","s","i","t","y">>,
      <<"c","o","l","l","e","g","e">>,
      <<"i","n","s","t","i","t","u","t","e">>,
      <<"l","a","b","o","r","a","t","o","r","y">>,
      <<"s","c","h","o","o","l">>,
      <<"d","e","p","t">>,
      <<"d","e","p","a","r","t","m","e","n","t">> }

\* a plausible slip: the affiliation is not lower-cased before the test
is_company_affiliation_CaseSensitive(aff) ==
    ~ \E term \in academic_terms : Contains(aff, term)

is_company_affiliation(aff) ==
    LET affiliation_lower == Lower(aff)
    IN  ~ \E term \in academic_terms : Contains(affiliation_lower, term)

-----------------------------------------------------------------------------
(* Python dicts are functions whose domain is the set of keys present.         *)

\* d.get(k, default)
Get(d, k, default) == IF k \in DOMAIN d THEN d[k] ELSE default

\* a dict with no keys
EmptyDict == [k \in {} |-> k]

-----------------------------------------------------------------------------
(* process_papers                                                              *)

\* the separator of the joined fields, "; "
Separator == <<";"," ">>

\* lines 75-84: the loop over the authors, from author i on
RECURSIVE AuthorLoop(_, _, _, _)
AuthorLoop(authors, i, company_authors, affiliations) ==
    IF i > Len(authors)
    THEN [company_authors |-> company_authors, affiliations |-> affiliations]
    ELSE
      LET author == authors[i]
          aff_list == Get(author, "AffiliationInfo", <<>>)
      IN  IF aff_list = <<>>
          THEN AuthorLoop(authors, i + 1, company_authors, affiliations)
          ELSE
            LET author_aff == Get(aff_list[1], "Affiliation", <<>>)
            IN  IF is_company_affiliation(author_aff)
                THEN
                  LET name == Strip(Get(author, "ForeName", <<>>) \o <<" ">>
                                    \o Get(author, "LastName", <<>>))
                  IN  AuthorLoop(authors, i + 1,
                                 Append(company_authors, name),
                                 Append(affiliations, BeforeFirstComma(author_aff)))
                ELSE AuthorLoop(authors, i + 1, company_authors, affiliations)

\* lines 88-90: the loop over the ELocationID entries, from entry i on
RECURSIVE ElocLoop(_, _, _)
ElocLoop(elocs, i, email) ==
    IF i > Len(elocs) THEN email
    ELSE IF /\ "ValidYN" \in DOMAIN elocs[i].attributes
            /\ elocs[i].attributes["ValidYN"] = <<"Y">>
         THEN ElocLoop(elocs, i + 1, elocs[i].text)
         ELSE ElocLoop(elocs, i + 1, email)

\* a plausible slip: the loop stops at the first valid entry
ExtractEmail_FirstWins(article) ==
    IF "ELocationID" \in DOMAIN article
       /\ \E i \in DOMAIN article["ELocationID"] :
             /\ "ValidYN" \in DOMAIN article["ELocationID"][i].attributes
             /\ article["ELocationID"][i].attributes["ValidYN"] = <<"Y">>
    THEN LET elocs == article["ELocationID"]
             first == CHOOSE i \in DOMAIN elocs :
                        /\ "ValidYN" \in DOMAIN elocs[i].attributes
                        /\ elocs[i].attributes["ValidYN"] = <<"Y">>
                        /\ \A j \in 1..(i - 1) :
                              ~ ( /\ "ValidYN" \in DOMAIN elocs[j].attributes
                                  /\ elocs[j].attributes["ValidYN"] = <<"Y">> )
         IN  elocs[first].text
    ELSE <<>>

\* lines 86-90
ExtractEmail(article) ==
    IF "ELocationID" \in DOMAIN article
    THEN ElocLoop(article["ELocationID"], 1, <<>>)
    ELSE <<>>

\* lines 68-69: the date string, with the defaults of the .get chain
DateStr(article) ==
    LET pub_date == Get(Get(Get(article, "Journal", EmptyDict),
                            "JournalIssue", EmptyDict), "PubDate", EmptyDict)
    IN  Get(pub_date, "Year", <<>>) \o <<"-">>
        \o Get(pub_date, "Month", <<"0","1">>) \o <<"-">>
        \o Get(pub_date, "Day", <<"0","1">>)

\* a plausible slip: the test `if company_authors` is left out
EmitRow_Always(company_authors, row) == <<row>>

\* a plausible slip: the row is appended inside the loop over the authors
EmitRow_PerAuthor(company_authors, row) ==
    [i \in 1..Len(company_authors) |-> row]

\* lines 92-100: the rows one record adds to results
EmitRow(company_authors, row) ==
    IF company_authors # <<>> THEN <<row>> ELSE <<>>

\* lines 63-100: the body of the try block for one record. pubmed_id is the
\* local variable as the record leaves it: <<>> while it is unbound, <<id>> once
\* line 66 has assigned it. raised tells whether the body raised.
ProcessPaper(paper, pubmed_id) ==
    IF "MedlineCitation" \notin DOMAIN paper
    THEN [raised |-> TRUE, pubmed_id |-> pubmed_id, rows |-> <<>>]
    ELSE
      LET medline == paper["MedlineCitation"]
      IN  IF "Article" \notin DOMAIN medline \/ "PMID" \notin DOMAIN medline
          THEN [raised |-> TRUE, pubmed_id |-> pubmed_id, rows |-> <<>>]
          ELSE
            LET article == medline["Article"]
                id == medline["PMID"]
            IN  IF "ArticleTitle" \notin DOMAIN article
                THEN [raised |-> TRUE, pubmed_id |-> <<id>>, rows |-> <<>>]
                ELSE
                  LET found == AuthorLoop(Get(article, "AuthorList", <<>>),
                                          1, <<>>, <<>>)
                      row == [PubmedID |-> id,
                              Title |-> article["ArticleTitle"],
                              PublicationDate |-> DateStr(article),
                              NonAcademicAuthors |->
                                  Join(found.company_authors, Separator),
                              CompanyAffiliations |->
                                  Join(found.affiliations, Separator),
                              CorrespondingAuthorEmail |-> ExtractEmail(article)]
                  IN  [raised |-> FALSE, pubmed_id |-> <<id>>,
                       rows |-> EmitRow(found.company_authors, row)]

\* a plausible slip: a new row is put in front of the rows collected so far
Collect_InFront(rows_so_far, rows) == rows \o rows_so_far

\* line 93: results.append
Collect(rows_so_far, rows) == rows_so_far \o rows

\* lines 61-106: the loop over the records, from record i on; rows_so_far is
\* the local list `results`. The handler at
\* line 103 formats pubmed_id into the log message before it continues; while
\* pubmed_id is unbound that raises UnboundLocalError inside the handler, which
\* nothing in process_papers catches.
RECURSIVE PaperLoop(_, _, _, _)
PaperLoop(list, i, rows_so_far, pubmed_id) ==
    IF i > Len(list)
    THEN [exception |-> "none", value |-> rows_so_far]
    ELSE
      LET r == ProcessPaper(list[i], pubmed_id)
      IN  IF r.raised
          THEN IF r.pubmed_id = <<>>
               THEN [exception |-> "UnboundLocalError", value |-> <<>>]
               ELSE PaperLoop(list, i + 1, rows_so_far, r.pubmed_id)
          ELSE PaperLoop(list, i + 1, Collect(rows_so_far, r.rows), r.pubmed_id)

\* lines 57-106
process_papers(response) ==
    IF "PubmedArticle" \notin DOMAIN response
    THEN [exception |-> "KeyError", value |-> <<>>]
    ELSE PaperLoop(response["PubmedArticle"], 1, <<>>, <<>>)

-----------------------------------------------------------------------------
(* save_to_csv                                                                 *)

\* lines 114-116
headers ==
    << <<"P","u","b","m","e","d","I","D">>,
       <<"T","i","t","l","e">>,
       <<"P","u","b","l","i","c","a","t","i","o","n"," ","D","a","t","e">>,
       <<"N","o","n","-","a","c","a","d","e","m","i","c"," ",
         "A","u","t","h","o","r","(","s",")">>,
       <<"C","o","m","p","a","n","y"," ",
         "A","f","f","i","l","i","a","t","i","o","n","(","s",")">>,
       <<"C","o","r","r","e","s","p","o","n","d","i","n","g"," ",
         "A","u","t","h","o","r"," ","E","m","a","i","l">> >>

\* the values of a row in the order of headers
RowValues(row) ==
    <<row.PubmedID, row.Title, row.PublicationDate, row.NonAcademicAuthors,
      row.CompanyAffiliations, row.CorrespondingAuthorEmail>>

\* the csv module doubles the quote characters of a field it quotes
RECURSIVE DoubleQuotes(_)
DoubleQuotes(s) ==
    IF s = <<>> THEN <<>>
    ELSE IF Head(s) = "\"" THEN <<"\"", "\"">> \o DoubleQuotes(Tail(s))
    ELSE <<Head(s)>> \o DoubleQuotes(Tail(s))

\* lines 120-122: a field as csv.DictWriter writes it (the excel dialect quotes
\* a field that holds the delimiter, a quote or a line break)
CsvField(s) ==
    IF \E i \in 1..Len(s) : s[i] \in {",", "\"", "\n", "\r"}
    THEN <<"\"">> \o DoubleQuotes(s) \o <<"\"">>
    ELSE s

CsvLine(values) == Join([i \in 1..Len(values) |-> CsvField(values[i])], <<",">>)

\* line 127: a row as the console branch prints it
ConsoleLine(values) ==
    Join([i \in 1..Len(values) |-> <<"\"">> \o values[i] \o <<"\"">>], <<",">>)

\* the file system holds no file at the path
NoFile == [exists |-> FALSE, lines |-> <<>>]

\* the filename argument left at None
NoFilename == <<>>

\* a plausible slip: the guard `if not results: return` is left out
save_to_csv_NoGuard(rows, path, f, out) ==
    IF path # NoFilename
    THEN [file |-> [exists |-> TRUE,
                    lines |-> <<CsvLine(headers)>>
                              \o [i \in 1..Len(rows) |-> CsvLine(RowValues(rows[i]))]],
          stdout |-> out]
    ELSE [file |-> f,
          stdout |-> out \o <<Join(headers, <<",">>)>>
                     \o [i \in 1..Len(rows) |-> ConsoleLine(RowValues(rows[i]))]]

\* lines 108-127: the file at path and the standard output after the call, f and
\* out being what they were before it
save_to_csv(rows, path, f, out) ==
    IF rows = <<>>
    THEN [file |-> f, stdout |-> out]
    ELSE IF path # NoFilename
    THEN [file |-> [exists |-> TRUE,
                    lines |-> <<CsvLine(headers)>>
                              \o [i \in 1..Len(rows) |-> CsvLine(RowValues(rows[i]))]],
          stdout |-> out]
    ELSE [file |-> f,
          stdout |-> out \o <<Join(headers, <<",">>)>>
                     \o [i \in 1..Len(rows) |-> ConsoleLine(RowValues(rows[i]))]]

-----------------------------------------------------------------------------
(* The inputs: what the external service may answer, and the arguments.        *)

\* the sequences over S of length at most n
SeqsUpTo(S, n) == UNION { [1..k -> S] : k \in 0..n }

Digits == <<"1","2","3","4","5","6","7","8","9">>

\* the identifiers the search may return
IdPool == { <<"3","0",Digits[n]>> : n \in 1..MaxIds }

\* line 35: the IdList of a search, identifiers without repetition
IdLists ==
    { l \in SeqsUpTo(IdPool, MaxIds) :
        \A i, j \in 1..Len(l) : i # j => l[i] # l[j] }

\* author entries of a record
Ann == [ForeName |-> <<"A","n","n">>, LastName |-> <<"L","e","e">>,
        AffiliationInfo |->
          << [Affiliation |-> <<"P","f","i","z","e","r",","," ","N","Y">>] >>]
\* first affiliation academic, second one a company; no ForeName
Roy == [LastName |-> <<"R","o","y">>,
        AffiliationInfo |->
          << [Affiliation |-> <<"D","e","p","t"," ","o","f"," ","C","h","e","m",
                                ","," ","M","I","T">>],
             [Affiliation |-> <<"N","o","v","a","r","t","i","s">>] >>]
\* a semicolon in the leading segment of the affiliation
Cy  == [ForeName |-> <<"C","y">>, LastName |-> <<"I","t","o">>,
        AffiliationInfo |->
          << [Affiliation |-> <<"R","o","c","h","e",";"," ","B","a","s","e","l",
                                ","," ","C","H">>] >>]
\* an empty AffiliationInfo list
Dee == [ForeName |-> <<"D","e","e">>, LastName |-> <<"K","i","m">>,
        AffiliationInfo |-> <<>>]
\* an affiliation entry without text; no LastName
Eve == [ForeName |-> <<"E","v","e">>, AffiliationInfo |-> <<EmptyDict>>]
\* no AffiliationInfo key
Fay == [ForeName |-> <<"F","a","y">>, LastName |-> <<"O","h">>]

AuthorPool == {Ann, Roy, Cy, Dee, Eve, Fay}

\* ELocationID entries of a record
EmailA == [attributes |-> [EIdType |-> <<"d","o","i">>, ValidYN |-> <<"Y">>],
           text |-> <<"a","@","x">>]
EmailB == [attributes |-> [EIdType |-> <<"p","i","i">>, ValidYN |-> <<"Y">>],
           text |-> <<"b","@","y">>]
\* flagged invalid
EmailC == [attributes |-> [EIdType |-> <<"d","o","i">>, ValidYN |-> <<"N">>],
           text |-> <<"c","@","z">>]
\* no ValidYN attribute
EmailD == [attributes |-> [EIdType |-> <<"d","o","i">>],
           text |-> <<"d","@","w">>]

ElocPool == {EmailA, EmailB, EmailC, EmailD}

JournalPool ==
    { [JournalIssue |-> [PubDate |-> [Year |-> <<"2","0","2","4">>,
                                      Month |-> <<"M","a","r">>,
                                      Day |-> <<"0","5">>]]],
      [JournalIssue |-> [PubDate |-> [Year |-> <<"2","0","2","3">>]]] }

TitleText == <<"A"," ","s","t","u","d","y">>

\* the Article parts of the records a projector run is given
GeneratedArticles ==
    { [ArticleTitle |-> TitleText, Journal |-> j, AuthorList |-> a,
       ELocationID |-> e] :
        j \in JournalPool, a \in SeqsUpTo(AuthorPool, MaxAuthors),
        e \in SeqsUpTo(ElocPool, MaxElocs) }
    \cup
    { [ArticleTitle |-> TitleText, Journal |-> j, AuthorList |-> a] :
        j \in JournalPool, a \in SeqsUpTo(AuthorPool, MaxAuthors) }
    \cup
    { [ArticleTitle |-> TitleText], [Journal |-> EmptyDict] }

\* the records a projector run is given: one per generated Article, and one
\* without a MedlineCitation
GeneratedPapers ==
    { [MedlineCitation |-> [PMID |-> <<"3","0","1">>, Article |-> a]] :
        a \in GeneratedArticles }
    \cup { [PubmedData |-> EmptyDict] }

\* the Article parts of the records a pipeline run is answered with
ArticleShapes ==
    << [ArticleTitle |-> TitleText, AuthorList |-> <<Ann>>,
        ELocationID |-> <<EmailA>>],
       [ArticleTitle |-> TitleText, AuthorList |-> <<Roy, Dee>>,
        ELocationID |-> <<EmailC>>],
       [ArticleTitle |-> TitleText, AuthorList |-> <<Eve, Roy, Ann>>,
        Journal |-> [JournalIssue |-> [PubDate |-> [Year |-> <<"2","0","2","4">>]]],
        ELocationID |-> <<EmailA, EmailC, EmailB>>],
       [ArticleTitle |-> TitleText],
       [AuthorList |-> <<Ann>>] >>

\* the record of identifier id in shape k; shape 0 has no MedlineCitation
PaperOf(id, k) ==
    IF k = 0 THEN [PubmedData |-> EmptyDict]
    ELSE [MedlineCitation |-> [PMID |-> id, Article |-> ArticleShapes[k]]]

\* the identifiers of l at the positions in the set I, in the order of l
Pick(l, I) ==
    [k \in 1..Cardinality(I) |->
        l[CHOOSE i \in I : Cardinality({j \in I : j <= i}) = k]]

\* lines 43-44: what Entrez.read may return for the identifiers idlist: a
\* document without PubmedArticle, or the records of some of the identifiers,
\* at most one record per identifier, in the order of the identifiers
Responses(idlist) ==
    { [PubmedBookArticle |-> <<>>] }
    \cup
    UNION { { [PubmedArticle |->
                  [k \in 1..Len(sub) |-> PaperOf(sub[k], shape[k])]] :
                shape \in [1..Len(sub) -> 0..Len(ArticleShapes)] } :
            sub \in { Pick(idlist, I) : I \in SUBSET (1..Len(idlist)) } }

-----------------------------------------------------------------------------
(* fetch_papers: the pipeline.                                                 *)

\* the path a run may be given
OutPath == <<"o","u","t",".","c","s","v">>

\* a file left at the path by an earlier run
OldFile == [exists |-> TRUE, lines |-> << <<"o","l","d">> >>]

Init ==
    /\ pc = "start"
    /\ filename \in {NoFilename, OutPath}
    /\ file \in {NoFile, OldFile}
    /\ ids = <<>>
    /\ papers = EmptyDict
    /\ results = <<>>
    /\ error = "none"
    /\ calls = <<>>
    /\ stdout = <<>>
    /\ affiliation = <<>>
    /\ verdict = FALSE

\* a plausible slip: the handler of search_papers logs and returns an empty
\* list instead of raising again
SearchPapers_Swallow ==
    /\ pc = "start"
    /\ \/ /\ calls' = Append(calls, [call |-> "esearch", ok |-> FALSE])
          /\ ids' = <<>>
       \/ /\ calls' = Append(calls, [call |-> "esearch", ok |-> TRUE])
          /\ ids' \in IdLists
    /\ pc' = "searched"
    /\ UNCHANGED <<filename, papers, results, error, file, stdout,
                   affiliation, verdict>>

\* lines 28-38 and 132: the search call either raises, which the handler logs
\* and raises again out of fetch_papers, or returns the identifier list
SearchPapers ==
    /\ pc = "start"
    /\ \/ /\ calls' = Append(calls, [call |-> "esearch", ok |-> FALSE])
          /\ pc' = "failed"
          /\ error' = "URLError"
          /\ ids' = ids
       \/ /\ calls' = Append(calls, [call |-> "esearch", ok |-> TRUE])
          /\ ids' \in IdLists
          /\ pc' = "searched"
          /\ error' = error
    /\ UNCHANGED <<filename, papers, results, file, stdout, affiliation, verdict>>

\* a plausible slip: a detail fetch that fails is issued a second time
FetchPaperDetails_Retry ==
    /\ pc = "searched"
    /\ \/ /\ calls' = calls \o << [call |-> "efetch", ok |-> FALSE],
                                 [call |-> "efetch", ok |-> FALSE] >>
          /\ pc' = "failed"
          /\ error' = "URLError"
          /\ UNCHANGED <<papers, results>>
       \/ /\ \E first \in BOOLEAN :
               calls' = calls \o (IF first THEN <<>>
                                  ELSE << [call |-> "efetch", ok |-> FALSE] >>)
                              \o << [call |-> "efetch", ok |-> TRUE] >>
          /\ papers' \in Responses(ids)
          /\ LET r == process_papers(papers')
             IN  IF r.exception = "none"
                 THEN /\ results' = r.value
                      /\ pc' = "fetched"
                      /\ error' = error
                 ELSE /\ results' = results
                      /\ pc' = "failed"
                      /\ error' = r.exception
    /\ UNCHANGED <<filename, ids, file, stdout, affiliation, verdict>>

\* lines 40-49 and 133: the detail call either raises, or returns a document
\* that process_papers turns into rows; whatever is raised inside the try block,
\* by the call or by process_papers, is logged and raised again out of
\* fetch_papers
FetchPaperDetails ==
    /\ pc = "searched"
    /\ \/ /\ calls' = Append(calls, [call |-> "efetch", ok |-> FALSE])
          /\ pc' = "failed"
          /\ error' = "URLError"
          /\ UNCHANGED <<papers, results>>
       \/ /\ calls' = Append(calls, [call |-> "efetch", ok |-> TRUE])
          /\ papers' \in Responses(ids)
          /\ LET r == process_papers(papers')
             IN  IF r.exception = "none"
                 THEN /\ results' = r.value
                      /\ pc' = "fetched"
                      /\ error' = error
                 ELSE /\ results' = results
                      /\ pc' = "failed"
                      /\ error' = r.exception
    /\ UNCHANGED <<filename, ids, file, stdout, affiliation, verdict>>

\* lines 108-127 and 134: the sink
SaveToCsv ==
    /\ pc = "fetched"
    /\ calls' = Append(calls, [call |-> "save_to_csv", ok |-> TRUE])
    /\ LET after == save_to_csv(results, filename, file, stdout)
       IN  /\ file' = after.file
           /\ stdout' = after.stdout
    /\ pc' = "done"
    /\ UNCHANGED <<filename, ids, papers, results, error, affiliation, verdict>>

Next == SearchPapers \/ FetchPaperDetails \/ SaveToCsv

Spec == Init /\ [][Next]_vars

-----------------------------------------------------------------------------
(* Runs of process_papers alone, on a document holding one generated record.   *)

InitProjector ==
    /\ pc = "project"
    /\ papers \in { [PubmedArticle |-> <<p>>] : p \in GeneratedPapers }
    /\ filename = NoFilename
    /\ file = NoFile
    /\ ids = <<>>
    /\ results = <<>>
    /\ error = "none"
    /\ calls = <<>>
    /\ stdout = <<>>
    /\ affiliation = <<>>
    /\ verdict = FALSE

\* lines 57-106: one call of process_papers; error is what it raised
ProcessPapers ==
    /\ pc = "project"
    /\ LET r == process_papers(papers)
       IN  /\ results' = r.value
           /\ error' = r.exception
    /\ pc' = "projected"
    /\ UNCHANGED <<filename, ids, papers, calls, file, stdout, affiliation, verdict>>

NextProjector == ProcessPapers

SpecProjector == InitProjector /\ [][NextProjector]_vars

-----------------------------------------------------------------------------
(* Runs of is_company_affiliation alone.                                       *)

\* pieces of affiliation text; a keyword may lie across two of them
Fragments ==
    { <<"U","n","i">>, <<"V","E","R","S","I","T","Y">>,
      <<"C","o","l">>, <<"l","e","g","e">>,
      <<"I","N","S","T","I">>, <<"t","u","t","e">>,
      <<"L","a","b","o","r">>, <<"A","T","O","R","Y">>,
      <<"S","c","h","o">>, <<"O","L">>,
      <<"D","e","p">>, <<"T">>, <<"a","r","t","m","e","n","t">>,
      <<"P","f","i","z","e","r">>, <<","," ">> }

AffiliationInputs ==
    { Join(fs, <<>>) : fs \in SeqsUpTo(Fragments, MaxFrags) }

InitClassifier ==
    /\ pc = "classify"
    /\ affiliation \in AffiliationInputs
    /\ verdict = FALSE
    /\ filename = NoFilename
    /\ file = NoFile
    /\ ids = <<>>
    /\ papers = EmptyDict
    /\ results = <<>>
    /\ error = "none"
    /\ calls = <<>>
    /\ stdout = <<>>

\* lines 51-55: one call of is_company_affiliation
Classify ==
    /\ pc = "classify"
    /\ verdict' = is_company_affiliation(affiliation)
    /\ pc' = "classified"
    /\ UNCHANGED <<filename, ids, papers, results, error, calls, file, stdout,
                   affiliation>>

NextClassifier == Classify

SpecClassifier == InitClassifier /\ [][NextClassifier]_vars

-----------------------------------------------------------------------------
(* Vocabulary of the properties.                                               *)

\* the records of a document; none when it has no PubmedArticle
RecordsOf(response) == Get(response, "PubmedArticle", <<>>)

\* the Article of a record that has one
HasArticle(paper) ==
    /\ "MedlineCitation" \in DOMAIN paper
    /\ "Article" \in DOMAIN paper["MedlineCitation"]
    /\ "PMID" \in DOMAIN paper["MedlineCitation"]

ArticleOf(paper) == paper["MedlineCitation"]["Article"]

\* the identifier of a record, <<>> for a record that carries none
IdOf(paper) == IF HasArticle(paper) THEN paper["MedlineCitation"]["PMID"] ELSE <<>>

\* the record cannot be projected: a key the projector indexes is missing
Fails(paper) == ~HasArticle(paper) \/ "ArticleTitle" \notin DOMAIN ArticleOf(paper)

\* the author has a non-empty AffiliationInfo list whose first entry is
\* classified non-academic
Qualifies(author) ==
    /\ "AffiliationInfo" \in DOMAIN author
    /\ author["AffiliationInfo"] # <<>>
    /\ is_company_affiliation(Get(author["AffiliationInfo"][1], "Affiliation", <<>>))

AuthorsOf(paper) ==
    IF HasArticle(paper) THEN Get(ArticleOf(paper), "AuthorList", <<>>) ELSE <<>>

QualifyingAuthors(paper) == SelectSeq(AuthorsOf(paper), Qualifies)

\* s cut at every occurrence of sep, as s.split(sep) cuts it
RECURSIVE SplitOn(_, _)
SplitOn(s, sep) ==
    IF Contains(s, sep)
    THEN LET i == CHOOSE k \in 1..Len(s) :
                    /\ SubSeq(s, k, k + Len(sep) - 1) = sep
                    /\ \A j \in 1..(k - 1) : SubSeq(s, j, j + Len(sep) - 1) # sep
         IN  <<SubSeq(s, 1, i - 1)>> \o SplitOn(SubSeq(s, i + Len(sep), Len(s)), sep)
    ELSE <<s>>

\* a is b with some of its entries left out
IsSubsequence(a, b) == \E I \in SUBSET (1..Len(b)) : Pick(b, I) = a

\* the call was issued
Issued(name) == \E i \in 1..Len(calls) : calls[i].call = name

\* the call was issued and raised
Raised(name) == \E i \in 1..Len(calls) : calls[i].call = name /\ ~calls[i].ok

\* nothing was written to the path or printed
NothingWritten == file \in {NoFile, OldFile} /\ stdout = <<>>

-----------------------------------------------------------------------------
(* C1 *)

\* C1: every row process_papers returns comes from a record that has at least
\* one author whose AffiliationInfo list is non-empty and whose first listed
\* affiliation is_company_affiliation classifies as non-academic; a record
\* without such an author (no author list, or authors without affiliation
\* entries) produces no row.
C1_RowOnlyForQualifyingRecord ==
    pc = "projected" =>
        \A i \in 1..Len(results) :
            \E k \in 1..Len(RecordsOf(papers)) :
                /\ IdOf(RecordsOf(papers)[k]) = results[i].PubmedID
                /\ QualifyingAuthors(RecordsOf(papers)[k]) # <<>>

\* a row came out of a record that also lists an author who does not qualify
C1_Witness ==
    /\ pc = "projected"
    /\ Len(results) = 1
    /\ Len(AuthorsOf(papers["PubmedArticle"][1])) = 2
    /\ Len(QualifyingAuthors(papers["PubmedArticle"][1])) = 1

-----------------------------------------------------------------------------
(* C2 *)

\* the rows of the records that can be projected, each record taken alone
RECURSIVE RowsOfSound(_)
RowsOfSound(list) ==
    IF list = <<>> THEN <<>>
    ELSE (IF Fails(Head(list)) THEN <<>> ELSE ProcessPaper(Head(list), <<>>).rows)
         \o RowsOfSound(Tail(list))

\* C2: whatever record of the document fails, at whatever position, also the
\* first one and before its identifier is read, process_papers returns
\* normally with the rows of all the other qualifying records.
C2_FailingRecordAloneSkipped ==
    ( /\ Issued("efetch") /\ ~Raised("efetch")
      /\ "PubmedArticle" \in DOMAIN papers )
    => ( /\ pc \in {"fetched", "done"}
         /\ error = "none"
         /\ results = RowsOfSound(papers["PubmedArticle"]) )

-----------------------------------------------------------------------------
(* C3 *)

\* the terms as the claim lists them
ListedTerms ==
    { <<"u","n","i","v","e","r","s","i","t","y">>,
      <<"c","o","l","l","e","g","e">>,
      <<"i","n","s","t","i","t","u","t","e">>,
      <<"l","a","b","o","r","a","t","o","r","y">>,
      <<"s","c","h","o","o","l">>,
      <<"d","e","p","t">>,
      <<"d","e","p","a","r","t","m","e","n","t">> }

\* the two characters are the same letter in either case, or the same character
SameIgnoringCase(a, b) ==
    \/ a = b
    \/ \E i \in DOMAIN UpperCase : {a, b} = {UpperCase[i], LowerCase[i]}

\* term occurs in s at some position, case ignored
OccursIgnoringCase(s, term) ==
    \E at \in 0..(Len(s) - Len(term)) :
        \A j \in 1..Len(term) : SameIgnoringCase(s[at + j], term[j])

\* C3: is_company_affiliation returns false for every string that holds one of
\* the seven terms as a substring, case ignored, and true for every other
\* string, the empty string among them.
C3_ClassifierIsKeywordTest ==
    pc = "classified" =>
        (verdict <=> ~ \E term \in ListedTerms : OccursIgnoringCase(affiliation, term))

\* a string classified academic through a keyword that is not in lower case
C3_Witness ==
    /\ pc = "classified"
    /\ verdict = FALSE
    /\ \A term \in ListedTerms : ~Contains(affiliation, term)

-----------------------------------------------------------------------------
(* C4 *)

\* C4: when the sink has been called, the rows it was given are no more than
\* the identifiers the search returned.
C4_RowsAtMostIds == Issued("save_to_csv") => Len(results) <= Len(ids)

\* the sink was given as many rows as there were identifiers, more than one
C4_Witness ==
    /\ Issued("save_to_csv")
    /\ Len(ids) = 2
    /\ Len(results) = 2

-----------------------------------------------------------------------------
(* C5 *)

\* C5: the call of save_to_csv with an empty row list leaves the file at the
\* path as it was (not created, not truncated) and prints nothing, with and
\* without a filename.
C5_EmptySaveChangesNothing ==
    [][(pc = "fetched" /\ pc' = "done" /\ results = <<>>)
        => (file' = file /\ stdout' = stdout)]_vars

\* the sink ran on an empty list with a path given, and no file is there
C5_Witness ==
    /\ pc = "done"
    /\ results = <<>>
    /\ filename = OutPath
    /\ file = NoFile

-----------------------------------------------------------------------------
(* C6 *)

\* the display name of an author, as line 82 builds it
NameOf(author) ==
    Strip(Get(author, "ForeName", <<>>) \o <<" ">> \o Get(author, "LastName", <<>>))

\* the leading segment of the first affiliation of a qualifying author
SegmentOf(author) ==
    BeforeFirstComma(Get(author["AffiliationInfo"][1], "Affiliation", <<>>))

\* C6: for a record with exactly two qualifying authors, the joined name field
\* and the joined affiliation field of its row each hold exactly two
\* semicolon-separated entries, entry i being that of the i-th qualifying
\* author in the order of the author list.
C6_TwoEntriesInAuthorOrder ==
    ( /\ pc = "projected"
      /\ Len(RecordsOf(papers)) = 1
      /\ ~Fails(papers["PubmedArticle"][1])
      /\ Len(QualifyingAuthors(papers["PubmedArticle"][1])) = 2 )
    => LET q == QualifyingAuthors(papers["PubmedArticle"][1])
       IN  /\ Len(results) = 1
           /\ SplitOn(results[1].NonAcademicAuthors, Separator)
                = <<NameOf(q[1]), NameOf(q[2])>>
           /\ SplitOn(results[1].CompanyAffiliations, Separator)
                = <<SegmentOf(q[1]), SegmentOf(q[2])>>

-----------------------------------------------------------------------------
(* C7 *)

\* process_papers raised inside fetch_paper_details
ProjectionRaised == error \in {"KeyError", "UnboundLocalError"}

\* C7: a failure of the search call or of the batch detail fetch leaves
\* fetch_papers as a fatal error that ends the run: after a search failure the
\* detail fetch is never issued, and after a failure of either save_to_csv is
\* never called, no file is written and nothing is printed.
C7_FailureIsFatal ==
    (Raised("esearch") \/ Raised("efetch") \/ ProjectionRaised) =>
        /\ pc = "failed"
        /\ error # "none"
        /\ ~ENABLED Next
        /\ ~Issued("save_to_csv")
        /\ NothingWritten
        /\ (Raised("esearch") => ~Issued("efetch"))

\* the detail fetch raised in a run that was given a path over an old file
C7_Witness ==
    /\ Raised("efetch")
    /\ pc = "failed"
    /\ filename = OutPath
    /\ file = OldFile

-----------------------------------------------------------------------------
(* C8 *)

\* the three calls of fetch_papers in program order
CallOrder == <<"esearch", "efetch", "save_to_csv">>

\* C8: the calls of one invocation are issued in the order search, detail
\* fetch, sink, each at most once, and a call is issued only after the calls
\* before it have returned.
C8_CallsSequentialOnce ==
    /\ Len(calls) <= Len(CallOrder)
    /\ \A i \in 1..Len(calls) : calls[i].call = CallOrder[i]
    /\ \A i \in 1..(Len(calls) - 1) : calls[i].ok

\* a run that went through the search, the detail fetch and the sink
C8_Witness ==
    /\ pc = "done"
    /\ Len(calls) = 3
    /\ results # <<>>

-----------------------------------------------------------------------------
(* C9 *)

\* the ELocationID entry is flagged valid
FlaggedValid(eloc) ==
    /\ "ValidYN" \in DOMAIN eloc.attributes
    /\ eloc.attributes["ValidYN"] = <<"Y">>

\* the text of the last entry flagged valid, the empty string without one
LastValidText(elocs) ==
    LET valid == { i \in 1..Len(elocs) : FlaggedValid(elocs[i]) }
    IN  IF valid = {} THEN <<>>
        ELSE elocs[CHOOSE m \in valid : \A j \in valid : j <= m].text

\* C9: the email field of a row is the value of the last ELocationID entry of
\* its record that is flagged valid, and the empty string when the record has
\* no such entries or none is flagged valid.
C9_EmailIsLastValid ==
    (pc = "projected" /\ results # <<>>) =>
        results[1].CorrespondingAuthorEmail
          = LastValidText(Get(ArticleOf(papers["PubmedArticle"][1]),
                              "ELocationID", <<>>))

\* a row of a record whose two entries are both flagged valid
C9_Witness ==
    /\ pc = "projected"
    /\ results # <<>>
    /\ "ELocationID" \in DOMAIN ArticleOf(papers["PubmedArticle"][1])
    /\ ArticleOf(papers["PubmedArticle"][1])["ELocationID"] = <<EmailA, EmailB>>
    /\ results[1].CorrespondingAuthorEmail = EmailB.text

-----------------------------------------------------------------------------
(* C10 *)

\* C10: the rows process_papers returns follow the records of the document:
\* at most one row per record, carrying the identifier of that record, in the
\* order of the records, whichever records were skipped.
C10_RowsFollowRecords ==
    pc \in {"fetched", "done"} =>
        IsSubsequence([i \in 1..Len(results) |-> results[i].PubmedID],
                      [k \in 1..Len(RecordsOf(papers)) |->
                          IdOf(RecordsOf(papers)[k])])

\* three records, the second raised and was skipped, the other two gave rows
C10_Witness ==
    /\ pc = "fetched"
    /\ Len(RecordsOf(papers)) = 3
    /\ Fails(papers["PubmedArticle"][2])
    /\ Len(results) = 2
    /\ results[1].PubmedID = IdOf(papers["PubmedArticle"][1])
    /\ results[2].PubmedID = IdOf(papers["PubmedArticle"][3])

=============================================================================
